---- MODULE Spec2Model ----
(***************************************************************************)
(* The local thread list runtime (LocalThreadListRuntimeCore) and the      *)
(* per-thread history adapter (LocalStorageHistoryAdapter) as a state      *)
(* machine.  One action per public method; an async method that awaits in  *)
(* the middle is two actions, the part before the await and the            *)
(* continuation the microtask queue runs later.                            *)
(***************************************************************************)
EXTENDS Integers, Sequences, FiniteSets, TLC

\* ------------------------------------------------------------------ bounds

\* How many times generateId() is drawn (switchToNewThread calls).
MaxNewThreads == 1
\* How many continuations may wait in the microtask queue at once.
MaxPending == 1
\* How many storage writes the medium rejects (QuotaExceededError) in a run.
MaxStorageFaults == 1
\* How many times the runtime factory throws in a run.
MaxFactoryFaults == 1

\* --------------------------------------------------------------- universe

DEFAULT_THREAD_ID == "__DEFAULT_ID__"

\* Thread ids the callers pass in.
CallerIds == {"a"}

\* The ids generateId() returns, in the order it returns them (all fresh).
GeneratedIdTable == <<"g1", "g2", "g3">>

GeneratedIds == {GeneratedIdTable[i] : i \in 1..MaxNewThreads}

AllIds == {DEFAULT_THREAD_ID} \cup CallerIds \cup GeneratedIds

NEW_THREAD_TITLE == "New Thread"

DEFAULT_THREAD_METADATA ==
    [threadId |-> DEFAULT_THREAD_ID, status |-> "regular", title |-> "Default Thread"]

NoError == "none"

NoRuntime == 0

\* ---------------------------------------------------------------- helpers

Includes(s, x) == \E i \in 1..Len(s) : s[i] = x

Filter(s, x) == SelectSeq(s, LAMBDA y : y # x)

IndexOf(s, x) ==
    IF Includes(s, x) THEN CHOOSE i \in 1..Len(s) : s[i] = x /\ \A j \in 1..(i - 1) : s[j] # x
    ELSE 0

\* Array.prototype.splice(index, 1) with a 1-based index.
Splice1(s, i) == SubSeq(s, 1, i - 1) \o SubSeq(s, i + 1, Len(s))

Unshift(s, x) == <<x>> \o s

Range(s) == {s[i] : i \in 1..Len(s)}

NoDuplicates(s) == \A i, j \in 1..Len(s) : s[i] = s[j] => i = j

\* A metadata object: a function from its own keys to records.
EmptyMetadata == [x \in {} |-> DEFAULT_THREAD_METADATA]

Has(meta, id) == id \in DOMAIN meta

Put(meta, id, rec) == [x \in DOMAIN meta \cup {id} |-> IF x = id THEN rec ELSE meta[x]]

Remove(meta, id) == [x \in DOMAIN meta \ {id} |-> meta[x]]

\* `Thread ${threadId.substring(0, 5)}`
GeneratedTitle(threadId) ==
    "Thread " \o (IF Len(threadId) > 5 THEN SubSeq(threadId, 1, 5) ELSE threadId)

\* ------------------------------------------------------------------ state

VARIABLES
    mainThreadId,            \* _mainThreadId
    threadIds,               \* _threadIds
    archivedThreadIds,       \* _archivedThreadIds
    threadMetadata,          \* _threadMetadata
    threadRuntimeInstances,  \* _threadRuntimeInstances: id -> instance (0: none)
    localStorage,            \* the four directory entries of localStorage
    historyStorage,          \* id -> the entry assistant-thread-<id>-messages
    pending,                 \* continuations waiting in the microtask queue
    generated,               \* how many ids generateId() has returned
    known,                   \* the ids a caller can name
    titles,                  \* the titles a caller passes to rename
    factoryCalls,            \* id -> how many times _threadFactory was invoked
    storageFaultsLeft,       \* storage writes the medium may still reject
    factoryFaultsLeft,       \* times the factory may still throw
    last                     \* the call that just ran, and how it ended

dirVars == <<mainThreadId, threadIds, archivedThreadIds, threadMetadata>>

vars == <<mainThreadId, threadIds, archivedThreadIds, threadMetadata,
          threadRuntimeInstances, localStorage, historyStorage, pending, generated,
          known, titles, factoryCalls, storageFaultsLeft, factoryFaultsLeft, last>>

\* localStorage with none of the four directory keys set.
EmptyStorage ==
    [assistant_mainThreadId      |-> [present |-> FALSE, value |-> ""],
     assistant_threadIds         |-> [present |-> FALSE, value |-> <<>>],
     assistant_archivedThreadIds |-> [present |-> FALSE, value |-> <<>>],
     assistant_threadMetadata    |-> [present |-> FALSE, value |-> EmptyMetadata]]

\* JavaScript's null and undefined where a string may stand.
Null == "<null>"

Undefined == "<undefined>"

\* A tree with no node and no head.
EmptyTree == [messages |-> <<>>, headId |-> Undefined]

\* The entry under the key assistant-thread-<id>-messages: whether it exists,
\* what its text is ("tree": the JSON of a {messages, headId} object,
\* "notATree": JSON of some other shape, "notJSON": text JSON.parse rejects,
\* "empty": the empty string) and, for a tree, the value the text parses to.
NoBlob == [present |-> FALSE, form |-> "tree", value |-> EmptyTree]

EmptyHistoryStorage == [i \in AllIds |-> NoBlob]

\* A storage medium that accepts every write.
Unlimited == [limited |-> FALSE, left |-> 0]

\* ------------------------------------------------- storage and persistence

\* localStorage.setItem(key, value): throws QuotaExceededError when the
\* medium has no room left, and then stores nothing.
SetItem(st, key, value) ==
    IF st.err # NoError THEN st
    ELSE IF st.quota.limited /\ st.quota.left = 0
         THEN [st EXCEPT !.err = "QuotaExceeded"]
         ELSE [st EXCEPT !.ls[key] = [present |-> TRUE, value |-> value],
                         !.quota.left = IF st.quota.limited THEN @ - 1 ELSE @]

\* JSON.stringify then (on load) JSON.parse of string arrays and of plain
\* {threadId, status, title} objects gives back equal values, so the stored
\* text is modelled by the value it parses to.
SaveThreadsToLocalStorage(st) ==
    LET s1 == SetItem(st, "assistant_mainThreadId", st.main)
        s2 == SetItem(s1, "assistant_threadIds", st.ids)
        s3 == SetItem(s2, "assistant_archivedThreadIds", st.arch)
    IN  SetItem(s3, "assistant_threadMetadata", st.meta)

NotifySubscribers(st) ==
    IF st.err # NoError THEN st ELSE [st EXCEPT !.notifies = @ + 1]

PersistState(st) ==
    IF st.err # NoError THEN st
    ELSE LET saved == SaveThreadsToLocalStorage(st)
         IN  NotifySubscribers(
                 IF saved.err # NoError THEN saved ELSE [saved EXCEPT !.persists = @ + 1])

Throw(st, e) == IF st.err # NoError THEN st ELSE [st EXCEPT !.err = e]

\* getItem(key) || default, then JSON.parse where the entry is JSON.
LoadThreadsFromLocalStorage(ls) ==
    [mainThreadId |->
        IF ls.assistant_mainThreadId.present /\ ls.assistant_mainThreadId.value # ""
        THEN ls.assistant_mainThreadId.value ELSE DEFAULT_THREAD_ID,
     threadIds |->
        IF ls.assistant_threadIds.present
        THEN ls.assistant_threadIds.value ELSE <<DEFAULT_THREAD_ID>>,
     archivedThreadIds |->
        IF ls.assistant_archivedThreadIds.present
        THEN ls.assistant_archivedThreadIds.value ELSE <<>>,
     threadMetadata |->
        IF ls.assistant_threadMetadata.present
        THEN ls.assistant_threadMetadata.value ELSE EmptyMetadata]

\* The in-memory object a call works on: the fields, the storage, what the
\* environment does to this call (quota, ff) and what the call has done.
Blank(ls, hist, q, ff) ==
    [main |-> DEFAULT_THREAD_ID, ids |-> <<>>, arch |-> <<>>, meta |-> EmptyMetadata,
     inst |-> [i \in AllIds |-> NoRuntime], calls |-> [i \in AllIds |-> 0],
     ls |-> ls, hist |-> hist, quota |-> q, ff |-> ff,
     err |-> NoError, swallowed |-> NoError, persists |-> 0, notifies |-> 0,
     out |-> NoRuntime]

Constructor(ls, hist, q) ==
    LET initialState == LoadThreadsFromLocalStorage(ls)
        s0 == [Blank(ls, hist, q, FALSE) EXCEPT
                  !.main = initialState.mainThreadId,
                  !.ids = initialState.threadIds,
                  !.arch = initialState.archivedThreadIds,
                  !.meta = initialState.threadMetadata]
    IN  IF ~Has(s0.meta, DEFAULT_THREAD_ID) /\ ~Includes(s0.ids, DEFAULT_THREAD_ID)
        THEN PersistState([s0 EXCEPT
                 !.ids = Unshift(s0.ids, DEFAULT_THREAD_ID),
                 !.meta = Put(s0.meta, DEFAULT_THREAD_ID, DEFAULT_THREAD_METADATA),
                 !.main = DEFAULT_THREAD_ID])
        ELSE IF ~Has(s0.meta, s0.main)
        THEN PersistState([s0 EXCEPT
                 !.main = DEFAULT_THREAD_ID,
                 !.ids = IF Includes(s0.ids, DEFAULT_THREAD_ID) THEN @
                         ELSE Unshift(@, DEFAULT_THREAD_ID),
                 !.meta = IF Includes(s0.ids, DEFAULT_THREAD_ID) THEN @
                          ELSE Put(@, DEFAULT_THREAD_ID, DEFAULT_THREAD_METADATA)])
        ELSE s0

\* ------------------------------------------------------------- operations

\* new LocalStorageHistoryAdapter(threadId), then this._threadFactory(...).
\* The adapter's constructor rejects an empty id; the factory is the host's
\* code and may throw (st.ff).  The instance is named by the number of the
\* factory invocation that returned it.
CreateRuntime(st, threadId) ==
    IF st.err # NoError THEN st
    ELSE IF threadId = "" THEN Throw(st, "InvalidThreadId")
    ELSE IF st.ff
         THEN [st EXCEPT !.calls[threadId] = @ + 1, !.err = "FactoryError"]
         ELSE [st EXCEPT !.calls[threadId] = @ + 1,
                         !.inst[threadId] = st.calls[threadId] + 1]

GetOrCreateThreadRuntime_AlwaysCreate(st, threadId) ==
    LET made == CreateRuntime(st, threadId)
    IN  IF made.err # NoError THEN made ELSE [made EXCEPT !.out = made.inst[threadId]]

GetOrCreateThreadRuntime_NoCheck(st, threadId) ==
    IF st.err # NoError THEN st
    ELSE IF st.inst[threadId] # NoRuntime THEN [st EXCEPT !.out = st.inst[threadId]]
    ELSE LET made == CreateRuntime(st, threadId)
         IN  IF made.err # NoError THEN made ELSE [made EXCEPT !.out = made.inst[threadId]]

GetOrCreateThreadRuntime(st, threadId) ==
    IF st.err # NoError THEN st
    ELSE IF st.inst[threadId] # NoRuntime THEN [st EXCEPT !.out = st.inst[threadId]]
    ELSE LET checked ==
                 IF Has(st.meta, threadId) THEN st
                 ELSE IF threadId = DEFAULT_THREAD_ID
                 THEN PersistState([st EXCEPT
                          !.meta = Put(@, DEFAULT_THREAD_ID, DEFAULT_THREAD_METADATA),
                          !.ids = IF Includes(@, DEFAULT_THREAD_ID) THEN @
                                  ELSE Unshift(@, DEFAULT_THREAD_ID)])
                 ELSE Throw(PersistState([st EXCEPT
                                !.ids = Filter(@, threadId),
                                !.arch = Filter(@, threadId)]),
                            "FatalInconsistency")
             made == CreateRuntime(checked, threadId)
         IN  IF made.err # NoError THEN made ELSE [made EXCEPT !.out = made.inst[threadId]]

\* get threadIds(): the filter, the main id in front, the manual dedup loop.
RECURSIVE Dedup(_, _)
Dedup(finalIds, uniqueIds) ==
    IF finalIds = <<>> THEN uniqueIds
    ELSE Dedup(Tail(finalIds),
               IF Includes(uniqueIds, Head(finalIds)) THEN uniqueIds
               ELSE Append(uniqueIds, Head(finalIds)))

ThreadIdsGetter_NoFilter(main, ids, arch) == <<main>> \o ids

ThreadIdsGetter(main, ids, arch) ==
    LET regularIds == SelectSeq(ids, LAMBDA id : ~Includes(arch, id) /\ id # main)
    IN  Dedup(<<main>> \o regularIds, <<>>)

GetItemById(meta, threadId) ==
    IF Has(meta, threadId) THEN {meta[threadId]} ELSE {}

\* get mainThreadId(): the self-healing read.
MainThreadIdGetter(st) ==
    IF Has(st.meta, st.main) THEN st
    ELSE PersistState([st EXCEPT
             !.main = DEFAULT_THREAD_ID,
             !.meta = IF Has(@, DEFAULT_THREAD_ID) THEN @
                      ELSE Put(@, DEFAULT_THREAD_ID, DEFAULT_THREAD_METADATA),
             !.ids = IF Includes(@, DEFAULT_THREAD_ID) THEN @
                     ELSE Unshift(@, DEFAULT_THREAD_ID),
             !.arch = Filter(@, DEFAULT_THREAD_ID)])

\* switchToThread lines 276-280 and switchToNewThread lines 296-301: the
\* statements that run after the await.
SetMainAndPersist_NoPersist(st, threadId) ==
    GetOrCreateThreadRuntime([st EXCEPT !.main = threadId], threadId)

SetMainAndPersist(st, threadId) ==
    PersistState(GetOrCreateThreadRuntime([st EXCEPT !.main = threadId], threadId))

\* What initialize returns, from either of its return statements.
InitializeReturn(threadId) == [remoteId |-> threadId, externalId |-> Undefined]

InitializeOp_Recreate(st, threadId) ==
    PersistState([st EXCEPT
        !.meta = Put(@, threadId, [threadId |-> threadId, status |-> "regular",
                                   title |-> NEW_THREAD_TITLE]),
        !.ids = IF Includes(@, threadId) THEN @ ELSE Append(@, threadId),
        !.arch = Filter(@, threadId)])

InitializeOp(st, threadId) ==
    IF Has(st.meta, threadId) THEN st
    ELSE PersistState([st EXCEPT
             !.meta = Put(@, threadId, [threadId |-> threadId, status |-> "regular",
                                        title |-> NEW_THREAD_TITLE]),
             !.ids = IF Includes(@, threadId) THEN @ ELSE Append(@, threadId),
             !.arch = Filter(@, threadId)])

RenameOp(st, threadId, newTitle) ==
    IF ~Has(st.meta, threadId) THEN Throw(st, "NotFound")
    ELSE PersistState([st EXCEPT !.meta[threadId].title = newTitle])

ArchiveOp_NoMainCheck(st, threadId) ==
    IF ~Has(st.meta, threadId) THEN Throw(st, "NotFound")
    ELSE IF Includes(st.arch, threadId) THEN st
    ELSE PersistState([st EXCEPT
             !.meta[threadId].status = "archived",
             !.ids = Filter(@, threadId),
             !.arch = Append(@, threadId)])

ArchiveOp(st, threadId) ==
    IF threadId = st.main THEN Throw(st, "InvalidOperation")
    ELSE IF ~Has(st.meta, threadId) THEN Throw(st, "NotFound")
    ELSE IF Includes(st.arch, threadId) THEN st
    ELSE PersistState([st EXCEPT
             !.meta[threadId].status = "archived",
             !.ids = Filter(@, threadId),
             !.arch = Append(@, threadId)])

UnarchiveOp_Unshift(st, threadId) ==
    IF ~Has(st.meta, threadId) THEN Throw(st, "NotFound")
    ELSE IF IndexOf(st.arch, threadId) = 0 THEN st
    ELSE PersistState([st EXCEPT
             !.meta[threadId].status = "regular",
             !.arch = Splice1(@, IndexOf(@, threadId)),
             !.ids = IF Includes(@, threadId) THEN @ ELSE Unshift(@, threadId)])

UnarchiveOp(st, threadId) ==
    IF ~Has(st.meta, threadId) THEN Throw(st, "NotFound")
    ELSE IF IndexOf(st.arch, threadId) = 0 THEN st
    ELSE PersistState([st EXCEPT
             !.meta[threadId].status = "regular",
             !.arch = Splice1(@, IndexOf(@, threadId)),
             !.ids = IF Includes(@, threadId) THEN @ ELSE Append(@, threadId)])

GenerateTitleOp(st, threadId) ==
    IF ~Has(st.meta, threadId) THEN Throw(st, "NotFound")
    ELSE IF st.meta[threadId].title = "" \/ st.meta[threadId].title = NEW_THREAD_TITLE
    THEN RenameOp(st, threadId, GeneratedTitle(threadId))
    ELSE st

DeleteOp_KeepBlob(st, threadId) ==
    IF threadId = st.main THEN Throw(st, "InvalidOperation")
    ELSE IF ~Has(st.meta, threadId) THEN st
    ELSE PersistState([st EXCEPT
             !.meta = Remove(@, threadId),
             !.ids = Filter(@, threadId),
             !.arch = Filter(@, threadId)])

\* localStorage.removeItem never throws; the try/catch around it is inert.
DeleteOp(st, threadId) ==
    IF threadId = st.main THEN Throw(st, "InvalidOperation")
    ELSE IF ~Has(st.meta, threadId) THEN st
    ELSE PersistState([st EXCEPT
             !.meta = Remove(@, threadId),
             !.ids = Filter(@, threadId),
             !.arch = Filter(@, threadId),
             !.hist[threadId] = NoBlob])

\* ---------------------------------------------------------------- history

\* A message as the runtime holds it: createdAt is a Date.
Message(id, time) == [id |-> id, createdAt |-> [isDate |-> TRUE, iso |-> time]]

\* JSON.stringify of a message: Date.prototype.toJSON turns createdAt into
\* its ISO string.
StringifyMessage(m) == [m EXCEPT !.createdAt.isDate = FALSE]

Stringify_DropHead(repositoryData) ==
    [messages |-> [i \in 1..Len(repositoryData.messages) |->
                      [message |-> [repositoryData.messages[i].message
                                        EXCEPT !.createdAt.isDate = FALSE],
                       parentId |-> repositoryData.messages[i].parentId]],
     headId |-> Undefined]

\* JSON.stringify({messages, headId}) as the value JSON.parse gives back:
\* an undefined headId is dropped and so reads back undefined, null stays null.
Stringify(repositoryData) ==
    [messages |-> [i \in 1..Len(repositoryData.messages) |->
                      [message |-> StringifyMessage(repositoryData.messages[i].message),
                       parentId |-> repositoryData.messages[i].parentId]],
     headId |-> repositoryData.headId]

\* The trees handed to saveFullHistory (an ExportedMessageRepository): a
\* chain with its head set, a single root with a null head, and one whose
\* first node names a parent that comes after it, with headId left out.
HistoryInputs ==
    {[messages |-> <<[message |-> Message("n1", "t1"), parentId |-> Null],
                     [message |-> Message("n2", "t2"), parentId |-> "n1"],
                     [message |-> Message("n3", "t3"), parentId |-> "n2"]>>,
      headId |-> "n3"],
     [messages |-> <<[message |-> Message("n1", "t1"), parentId |-> Null]>>,
      headId |-> Null],
     [messages |-> <<[message |-> Message("n1", "t1"), parentId |-> "n2"],
                     [message |-> Message("n2", "t2"), parentId |-> Null]>>,
      headId |-> Undefined]}

\* saveFullHistory(repositoryData): one setItem inside a try/catch that logs
\* and swallows whatever the write throws.
SaveFullHistoryOp(st, threadId, repositoryData) ==
    IF st.quota.limited /\ st.quota.left = 0
    THEN [st EXCEPT !.swallowed = "QuotaExceeded"]
    ELSE [st EXCEPT !.hist[threadId] =
                        [present |-> TRUE, form |-> "tree",
                         value |-> Stringify(repositoryData)]]

\* The rehydration of one message: a createdAt that is a (non-empty) string
\* becomes new Date(createdAt).
Rehydrate(message) ==
    IF ~message.createdAt.isDate THEN [message EXCEPT !.createdAt.isDate = TRUE]
    ELSE message

\* The body of load()'s try block once the entry is there: JSON.parse, then
\* parsedData.messages.map(...).  JSON.parse throws a SyntaxError on text
\* that is not JSON; .map throws a TypeError when the parsed value has no
\* messages array.
ParseAndRehydrate(storedData) ==
    IF storedData.form = "notJSON" THEN [err |-> "SyntaxError", data |-> EmptyTree]
    ELSE IF storedData.form = "notATree" THEN [err |-> "TypeError", data |-> EmptyTree]
    ELSE [err |-> NoError,
          data |-> [messages |-> [i \in 1..Len(storedData.value.messages) |->
                                     [message |-> Rehydrate(storedData.value.messages[i].message),
                                      parentId |-> storedData.value.messages[i].parentId]],
                    headId |-> storedData.value.headId]]

LoadOp_NoRehydrate(hist, threadId) ==
    IF ~hist[threadId].present \/ hist[threadId].form # "tree"
    THEN [err |-> NoError, absent |-> TRUE, data |-> EmptyTree]
    ELSE [err |-> NoError, absent |-> FALSE, data |-> hist[threadId].value]

LoadOp_Rethrow(hist, threadId) ==
    IF ~hist[threadId].present \/ hist[threadId].form = "empty"
    THEN [err |-> NoError, absent |-> TRUE, data |-> EmptyTree]
    ELSE [err |-> ParseAndRehydrate(hist[threadId]).err,
          absent |-> ParseAndRehydrate(hist[threadId]).err # NoError,
          data |-> ParseAndRehydrate(hist[threadId]).data]

\* load(): null when there is no entry (or an empty one) and null when the
\* try block throws; otherwise the rehydrated tree.
LoadOp(hist, threadId) ==
    IF ~hist[threadId].present \/ hist[threadId].form = "empty"
    THEN [err |-> NoError, absent |-> TRUE, data |-> EmptyTree]
    ELSE LET finalData == ParseAndRehydrate(hist[threadId])
         IN  IF finalData.err # NoError
             THEN [err |-> NoError, absent |-> TRUE, data |-> EmptyTree]
             ELSE [err |-> NoError, absent |-> FALSE, data |-> finalData.data]

\* ---------------------------------------------------------------- actions

\* What the storage medium may do to one call: accept everything, or (while
\* the run's fault budget lasts) reject the write after `left` accepted ones.
\* A call makes at most two persistState calls of four writes each.
Quotas ==
    {Unlimited} \cup
    (IF storageFaultsLeft > 0
     THEN {[limited |-> TRUE, left |-> n] : n \in 0..7} ELSE {})

FactoryFails == IF factoryFaultsLeft > 0 THEN BOOLEAN ELSE {FALSE}

Cur(q, ff) ==
    [main |-> mainThreadId, ids |-> threadIds, arch |-> archivedThreadIds,
     meta |-> threadMetadata, inst |-> threadRuntimeInstances, calls |-> factoryCalls,
     ls |-> localStorage, hist |-> historyStorage, quota |-> q, ff |-> ff,
     err |-> NoError, swallowed |-> NoError, persists |-> 0, notifies |-> 0,
     out |-> NoRuntime]

\* The call ends: the fields it left, and the record of how it ended.
Finish(st, op, arg, outcome) ==
    /\ mainThreadId' = st.main
    /\ threadIds' = st.ids
    /\ archivedThreadIds' = st.arch
    /\ threadMetadata' = st.meta
    /\ threadRuntimeInstances' = st.inst
    /\ factoryCalls' = st.calls
    /\ localStorage' = st.ls
    /\ historyStorage' = st.hist
    /\ storageFaultsLeft' = storageFaultsLeft -
           (IF st.err = "QuotaExceeded" \/ st.swallowed = "QuotaExceeded" THEN 1 ELSE 0)
    /\ factoryFaultsLeft' = factoryFaultsLeft - (IF st.err = "FactoryError" THEN 1 ELSE 0)
    /\ last' = [outcome |-> IF st.err = NoError THEN outcome ELSE st.err,
                persists |-> st.persists, notifies |-> st.notifies]

\* The state after `new LocalThreadListRuntimeCore(...)` in a process that
\* finds ls and hist in localStorage; no call made yet.
ConstructedFrom(ls, hist) ==
    LET st == Constructor(ls, hist, Unlimited)
    IN  /\ mainThreadId = st.main
        /\ threadIds = st.ids
        /\ archivedThreadIds = st.arch
        /\ threadMetadata = st.meta
        /\ threadRuntimeInstances = st.inst
        /\ factoryCalls = st.calls
        /\ localStorage = st.ls
        /\ historyStorage = st.hist
        /\ pending = <<>>
        /\ generated = 0
        /\ last = [outcome |-> "ok", persists |-> st.persists, notifies |-> st.notifies]

\* A fresh process: nothing in localStorage.
Constructed == ConstructedFrom(EmptyStorage, EmptyHistoryStorage)

\* A host whose storage accepts every write and whose factory never throws.
Init ==
    /\ Constructed
    /\ known = {DEFAULT_THREAD_ID} \cup CallerIds
    /\ titles = {NEW_THREAD_TITLE}
    /\ storageFaultsLeft = 0
    /\ factoryFaultsLeft = 0

\* The same host, with the runtimes saving their histories.
InitHistory ==
    /\ Constructed
    /\ known = {DEFAULT_THREAD_ID}
    /\ titles = {NEW_THREAD_TITLE}
    /\ storageFaultsLeft = 0
    /\ factoryFaultsLeft = 0

\* A host whose storage may reject writes and whose factory may throw.
InitFaults ==
    /\ Constructed
    /\ known = {DEFAULT_THREAD_ID}
    /\ titles = {NEW_THREAD_TITLE}
    /\ storageFaultsLeft = MaxStorageFaults
    /\ factoryFaultsLeft = MaxFactoryFaults

\* What an earlier session (or anything else writing to the origin's
\* localStorage) may have left under the default thread's history key.
StoredBlobs ==
    {NoBlob} \cup {[present |-> TRUE, form |-> f, value |-> EmptyTree] :
                      f \in {"notJSON", "notATree", "empty"}}

\* A host whose storage already holds a history entry, with the runtimes
\* loading and saving their histories.
InitStore ==
    /\ \E blob \in StoredBlobs :
           ConstructedFrom(EmptyStorage,
                           [EmptyHistoryStorage EXCEPT ![DEFAULT_THREAD_ID] = blob])
    /\ known = {DEFAULT_THREAD_ID}
    /\ titles = {NEW_THREAD_TITLE}
    /\ storageFaultsLeft = 0
    /\ factoryFaultsLeft = 0

\* A host whose storage may reject writes, with the runtimes loading and
\* saving their histories.
InitHistoryFaults ==
    /\ Constructed
    /\ known = {DEFAULT_THREAD_ID}
    /\ titles = {NEW_THREAD_TITLE}
    /\ storageFaultsLeft = MaxStorageFaults
    /\ factoryFaultsLeft = 0

\* A stored metadata map: for the default id and for a caller's id, no
\* record ("none") or a record with that status.
StoredMetadata(d, a) ==
    [x \in (IF d = "none" THEN {} ELSE {DEFAULT_THREAD_ID}) \cup
           (IF a = "none" THEN {} ELSE CallerIds) |->
        [threadId |-> x, status |-> IF x = DEFAULT_THREAD_ID THEN d ELSE a,
         title |-> NEW_THREAD_TITLE]]

\* The directory entries a process may find in localStorage: each of the
\* four either missing or holding some main id, lists and metadata map,
\* consistent with each other or not.
PersistedDirectories ==
    LET ids == {DEFAULT_THREAD_ID} \cup CallerIds
        lists == {<<>>} \cup {<<x>> : x \in ids} \cup
                 {<<x, y>> : x \in {DEFAULT_THREAD_ID}, y \in CallerIds}
        entries(values) == {[present |-> TRUE, value |-> v] : v \in values}
    IN  {[assistant_mainThreadId      |-> m,
          assistant_threadIds         |-> i,
          assistant_archivedThreadIds |-> r,
          assistant_threadMetadata    |-> t] :
            m \in {EmptyStorage.assistant_mainThreadId} \cup entries(ids),
            i \in {EmptyStorage.assistant_threadIds} \cup entries(lists),
            r \in {EmptyStorage.assistant_archivedThreadIds} \cup
                  entries({<<x>> : x \in ids}),
            t \in {EmptyStorage.assistant_threadMetadata} \cup
                  entries({StoredMetadata(d, a) :
                              d, a \in {"none", "regular", "archived"}})}

\* A process that starts on whatever directory an earlier session, or
\* anything else writing to the origin's localStorage, left there.
InitRestart ==
    /\ \E ls \in PersistedDirectories : ConstructedFrom(ls, EmptyHistoryStorage)
    /\ known = {DEFAULT_THREAD_ID} \cup CallerIds
    /\ titles = {NEW_THREAD_TITLE}
    /\ storageFaultsLeft = 0
    /\ factoryFaultsLeft = 0

Initialize(threadId) ==
    \E q \in Quotas :
        /\ Finish(InitializeOp(Cur(q, FALSE), threadId), "initialize", threadId, "ok")
        /\ UNCHANGED <<pending, generated, known, titles>>

\* switchToThread up to its first await (or to its end when it never awaits).
SwitchToThread(threadId) ==
    \E q \in Quotas, ff \in FactoryFails :
        LET st == Cur(q, ff) IN
        IF st.main = threadId
        THEN /\ Finish(st, "switchToThread", threadId, "ok")
             /\ UNCHANGED <<pending, generated, known, titles>>
        ELSE IF ~Has(st.meta, threadId)
        THEN /\ Finish(Throw(st, "NotFound"), "switchToThread", threadId, "ok")
             /\ UNCHANGED <<pending, generated, known, titles>>
        ELSE IF Includes(st.arch, threadId)
        THEN LET un == UnarchiveOp(st, threadId) IN
             /\ Len(pending) < MaxPending
             /\ Finish(un, "switchToThread", threadId, "awaiting")
             /\ pending' = IF un.err = NoError
                           THEN Append(pending, [op |-> "switchToThread", arg |-> threadId])
                           ELSE pending
             /\ UNCHANGED <<generated, known, titles>>
        ELSE /\ Finish(SetMainAndPersist(st, threadId), "switchToThread", threadId, "ok")
             /\ UNCHANGED <<pending, generated, known, titles>>

\* switchToNewThread up to the await of initialize.
SwitchToNewThread ==
    \E q \in Quotas :
        /\ generated < MaxNewThreads
        /\ Len(pending) < MaxPending
        /\ LET newThreadId == GeneratedIdTable[generated + 1]
               made == InitializeOp(Cur(q, FALSE), newThreadId)
           IN  /\ Finish(made, "switchToNewThread", newThreadId, "awaiting")
               /\ pending' = IF made.err = NoError
                             THEN Append(pending, [op |-> "switchToNewThread",
                                                   arg |-> newThreadId])
                             ELSE pending
        /\ generated' = generated + 1
        /\ known' = known \cup {GeneratedIdTable[generated + 1]}
        /\ UNCHANGED titles

\* The microtask queue runs the oldest continuation: the statements after the
\* await in switchToThread / switchToNewThread.
Resume ==
    /\ pending # <<>>
    /\ \E q \in Quotas, ff \in FactoryFails :
           Finish(SetMainAndPersist(Cur(q, ff), Head(pending).arg),
                  Head(pending).op, Head(pending).arg, "ok")
    /\ pending' = Tail(pending)
    /\ UNCHANGED <<generated, known, titles>>

Rename(threadId, newTitle) ==
    \E q \in Quotas :
        /\ Finish(RenameOp(Cur(q, FALSE), threadId, newTitle), "rename", threadId, "ok")
        /\ UNCHANGED <<pending, generated, known, titles>>

Archive(threadId) ==
    \E q \in Quotas :
        /\ Finish(ArchiveOp(Cur(q, FALSE), threadId), "archive", threadId, "ok")
        /\ UNCHANGED <<pending, generated, known, titles>>

Unarchive(threadId) ==
    \E q \in Quotas :
        /\ Finish(UnarchiveOp(Cur(q, FALSE), threadId), "unarchive", threadId, "ok")
        /\ UNCHANGED <<pending, generated, known, titles>>

Delete(threadId) ==
    \E q \in Quotas :
        /\ Finish(DeleteOp(Cur(q, FALSE), threadId), "delete", threadId, "ok")
        /\ UNCHANGED <<pending, generated, known, titles>>

\* After `await this.rename(...)` generateTitle has no statement left, so its
\* continuation changes nothing and the call is one step.
GenerateTitle(threadId) ==
    \E q \in Quotas :
        /\ Finish(GenerateTitleOp(Cur(q, FALSE), threadId), "generateTitle", threadId, "ok")
        /\ UNCHANGED <<pending, generated, known, titles>>

ReadMainThreadId ==
    \E q \in Quotas :
        /\ Finish(MainThreadIdGetter(Cur(q, FALSE)), "mainThreadId", "", "ok")
        /\ UNCHANGED <<pending, generated, known, titles>>

GetThreadRuntimeCore(threadId) ==
    \E q \in Quotas, ff \in FactoryFails :
        LET st == IF ~Has(threadMetadata, threadId) THEN Throw(Cur(q, ff), "NotFound")
                  ELSE GetOrCreateThreadRuntime(Cur(q, ff), threadId)
        IN  /\ Finish(st, "getThreadRuntimeCore", threadId, "ok")
            /\ UNCHANGED <<pending, generated, known, titles>>

GetMainThreadRuntimeCore ==
    \E q \in Quotas, ff \in FactoryFails :
        LET st == GetOrCreateThreadRuntime(Cur(q, ff), mainThreadId)
        IN  /\ Finish(st, "getMainThreadRuntimeCore", mainThreadId, "ok")
            /\ UNCHANGED <<pending, generated, known, titles>>

\* The runtime created for threadId saves its tree through the history
\* adapter it was given; only a constructed runtime holds one.
SaveFullHistory(threadId, repositoryData) ==
    /\ threadRuntimeInstances[threadId] # NoRuntime
    /\ \E q \in Quotas :
           Finish(SaveFullHistoryOp(Cur(q, FALSE), threadId, repositoryData),
                  "saveFullHistory", threadId, "ok")
    /\ UNCHANGED <<pending, generated, known, titles>>

\* The runtime created for threadId loads its history through its adapter.
Load(threadId) ==
    /\ threadRuntimeInstances[threadId] # NoRuntime
    /\ Finish(Throw(Cur(Unlimited, FALSE), LoadOp(historyStorage, threadId).err),
              "load", threadId, "ok")
    /\ UNCHANGED <<pending, generated, known, titles>>

\* append(change) and update(message) only log.
AppendHistory(threadId) ==
    /\ threadRuntimeInstances[threadId] # NoRuntime
    /\ Finish(Cur(Unlimited, FALSE), "append", threadId, "ok")
    /\ UNCHANGED <<pending, generated, known, titles>>

UpdateHistory(threadId) ==
    /\ threadRuntimeInstances[threadId] # NoRuntime
    /\ Finish(Cur(Unlimited, FALSE), "update", threadId, "ok")
    /\ UNCHANGED <<pending, generated, known, titles>>

Next ==
    \/ \E id \in known : Initialize(id)
    \/ \E id \in known : SwitchToThread(id)
    \/ SwitchToNewThread
    \/ Resume
    \/ \E id \in known, t \in titles : Rename(id, t)
    \/ \E id \in known : Archive(id)
    \/ \E id \in known : Unarchive(id)
    \/ \E id \in known : Delete(id)
    \/ \E id \in known : GenerateTitle(id)
    \/ ReadMainThreadId
    \/ \E id \in known : GetThreadRuntimeCore(id)
    \/ GetMainThreadRuntimeCore

Spec == Init /\ [][Next]_vars

SpecFaults == InitFaults /\ [][Next]_vars

NextHistory ==
    \/ Next
    \/ \E id \in AllIds, tree \in HistoryInputs : SaveFullHistory(id, tree)
    \/ \E id \in AllIds : Load(id)
    \/ \E id \in AllIds : AppendHistory(id)
    \/ \E id \in AllIds : UpdateHistory(id)

SpecHistory == InitHistory /\ [][NextHistory]_vars

SpecStore == InitStore /\ [][NextHistory]_vars

SpecHistoryFaults == InitHistoryFaults /\ [][NextHistory]_vars

\* Construction followed by reads of mainThreadId.
NextRestart == ReadMainThreadId

SpecRestart == InitRestart /\ [][NextRestart]_vars

\* ----------------------------------------------------------------- claims

\* No continuation is waiting: every call issued so far has run to its end.
Quiescent == pending = <<>>

Failed(outcome) == outcome \notin {"ok", "awaiting"}

\* The step runs the continuation at the head of the microtask queue.
Resumes == pending # <<>> /\ pending' = Tail(pending)

\* C1: after construction and after every committed call the main thread id
\* has a record in the metadata map (getItemById(main id) is not absent).
C1_MainHasRecord ==
    Quiescent => GetItemById(threadMetadata, mainThreadId) # {}

\* C2: the ids of the regular list, the archived list and the main id are
\* exactly the keys of the metadata map, and no id is in both lists.
C2_ListsMatchRecords ==
    Quiescent =>
        /\ Range(threadIds) \cup Range(archivedThreadIds) \cup {mainThreadId}
               = DOMAIN threadMetadata
        /\ Range(threadIds) \cap Range(archivedThreadIds) = {}

\* C3: after every committed call the main thread id is not in the archived
\* id list.
C3_MainNotArchived ==
    Quiescent => ~Includes(archivedThreadIds, mainThreadId)

\* C4: for every id with a record, the record's status is archived exactly
\* when the id is in the archived id list.
C4_StatusMatchesArchivedList ==
    Quiescent =>
        \A id \in DOMAIN threadMetadata :
            (threadMetadata[id].status = "archived") <=> Includes(archivedThreadIds, id)

\* C5: threadIds() is the main id, then the regular list in its stored order
\* without the main id and without archived ids, and holds no id twice.
C5_ThreadIdsView ==
    LET view == ThreadIdsGetter(mainThreadId, threadIds, archivedThreadIds)
    IN  /\ view = <<mainThreadId>> \o
                  SelectSeq(threadIds,
                            LAMBDA id : id # mainThreadId /\ ~Includes(archivedThreadIds, id))
        /\ NoDuplicates(view)

\* C5 witness: the main id sits inside the regular list behind another id,
\* and some thread is archived.
C5_Witness ==
    /\ Len(threadIds) >= 2
    /\ threadIds[1] # mainThreadId
    /\ Includes(threadIds, mainThreadId)
    /\ archivedThreadIds # <<>>

\* C6: calls issued without awaiting the earlier ones do not interleave: a
\* switch that was suspended at its await completes as if nothing ran in
\* between, so the thread it makes main still has a record and is not archived.
C6_SuspendedSwitchRunsAlone ==
    [][Resumes =>
          /\ GetItemById(threadMetadata', mainThreadId') # {}
          /\ ~Includes(archivedThreadIds', mainThreadId')]_vars

\* C7: archive(id) and delete(id) with id the main id fail with
\* InvalidOperation, fire no notification and leave the main id, both lists,
\* the metadata, the persisted snapshot and the history blobs unchanged.
C7_MainArchiveDeleteRejected ==
    [][\A id \in known :
          (id = mainThreadId /\ (Archive(id) \/ Delete(id))) =>
              /\ last'.outcome = "InvalidOperation"
              /\ last'.notifies = 0
              /\ last'.persists = 0
              /\ UNCHANGED <<dirVars, localStorage, historyStorage>>]_vars

\* C7 witness: a call was rejected as an invalid operation while the main
\* thread has a record and a stored history blob.
C7_Witness ==
    /\ last.outcome = "InvalidOperation"
    /\ Has(threadMetadata, mainThreadId)
    /\ historyStorage[mainThreadId].present

\* C8: a call that fails has changed neither the in-memory directory nor the
\* persisted snapshot.
C8_FailedCallChangesNothing ==
    [][Failed(last'.outcome) => UNCHANGED <<dirVars, localStorage>>]_vars

\* C9 as stated: the runtime factory is invoked at most once for each id.
C9_FactoryInvokedAtMostOnce ==
    \A id \in AllIds : factoryCalls[id] <= 1

\* C9 as amended: once the factory has returned a runtime for an id, that
\* instance stays the one registered for the id and the factory is never
\* invoked for the id again, whatever is deleted or initialized afterwards.
C9_RuntimeCreatedOnce ==
    [][\A id \in AllIds :
          threadRuntimeInstances[id] # NoRuntime =>
              /\ threadRuntimeInstances'[id] = threadRuntimeInstances[id]
              /\ factoryCalls'[id] = factoryCalls[id]]_vars

\* C9 witness: a runtime that outlived the record of its thread (the thread
\* was deleted), made by the second invocation of the factory for that id.
C9_Witness ==
    \E id \in AllIds :
        /\ threadRuntimeInstances[id] # NoRuntime
        /\ factoryCalls[id] = 2
        /\ ~Has(threadMetadata, id)

\* C10: when switchToThread(id) of an archived id completes, id is not in the
\* archived list, its status is regular, it is the main id and a runtime
\* exists for it; switchToThread(id) again changes none of these.
C10_SwitchToArchivedThread ==
    [][/\ (Resumes /\ Head(pending).op = "switchToThread" /\ last'.outcome = "ok") =>
              /\ mainThreadId' = Head(pending).arg
              /\ ~Includes(archivedThreadIds', mainThreadId')
              /\ Has(threadMetadata', mainThreadId')
              /\ threadMetadata'[mainThreadId'].status = "regular"
              /\ threadRuntimeInstances'[mainThreadId'] # NoRuntime
       /\ \A id \in known :
              (id = mainThreadId /\ SwitchToThread(id)) =>
                  UNCHANGED <<dirVars, threadRuntimeInstances, factoryCalls>>]_vars

\* C11: initialize is idempotent: a first initialize(id) leaves id with a
\* record, and initialize(id) of an id that has a record returns remoteId = id
\* with externalId absent, persists nothing, notifies nobody and leaves both
\* lists, the metadata and the persisted snapshot as they were.
C11_InitializeIdempotent ==
    [][\A id \in known :
          /\ (Initialize(id) /\ last'.outcome = "ok") => Has(threadMetadata', id)
          /\ (Has(threadMetadata, id) /\ Initialize(id)) =>
                 /\ last'.outcome = "ok"
                 /\ InitializeReturn(id).remoteId = id
                 /\ InitializeReturn(id).externalId = Undefined
                 /\ last'.persists = 0
                 /\ last'.notifies = 0
                 /\ UNCHANGED <<dirVars, localStorage>>]_vars

\* C11 witness: a call that persisted nothing, with a thread that was
\* initialized, retitled and archived: a second initialize of it must neither
\* reset the title nor take it out of the archive.
C11_Witness ==
    /\ last.outcome = "ok"
    /\ last.persists = 0
    /\ \E id \in CallerIds :
           /\ Has(threadMetadata, id)
           /\ threadMetadata[id].title # NEW_THREAD_TITLE
           /\ Includes(archivedThreadIds, id)

\* The object as the step leaves it, for a call made right after the step.
AfterStep ==
    [main |-> mainThreadId', ids |-> threadIds', arch |-> archivedThreadIds',
     meta |-> threadMetadata', inst |-> threadRuntimeInstances', calls |-> factoryCalls',
     ls |-> localStorage', hist |-> historyStorage', quota |-> Unlimited, ff |-> FALSE,
     err |-> NoError, swallowed |-> NoError, persists |-> 0, notifies |-> 0,
     out |-> NoRuntime]

\* C12: for a non-main id with a record that is in the regular list and not
\* archived, archive(id) followed by unarchive(id) leaves id with status
\* regular, out of the archived list, exactly once in the regular list as its
\* last element, with its title unchanged and the other regular ids in their
\* order; and every unarchive of an archived id appends it in this way.
C12_ArchiveUnarchiveRoundTrip ==
    [][\A id \in known :
          /\ (/\ id # mainThreadId
              /\ Has(threadMetadata, id)
              /\ Includes(threadIds, id)
              /\ ~Includes(archivedThreadIds, id)
              /\ Archive(id)) =>
                 LET back == UnarchiveOp(AfterStep, id)
                 IN  /\ last'.outcome = "ok"
                     /\ Includes(archivedThreadIds', id)
                     /\ back.err = NoError
                     /\ back.meta[id].status = "regular"
                     /\ ~Includes(back.arch, id)
                     /\ back.ids # <<>>
                     /\ back.ids[Len(back.ids)] = id
                     /\ Len(SelectSeq(back.ids, LAMBDA x : x = id)) = 1
                     /\ back.meta[id].title = threadMetadata[id].title
                     /\ Filter(back.ids, id) = Filter(threadIds, id)
          /\ (/\ Has(threadMetadata, id)
              /\ Includes(archivedThreadIds, id)
              /\ ~Includes(threadIds, id)
              /\ Unarchive(id)) =>
                 /\ last'.outcome = "ok"
                 /\ threadIds' = Append(threadIds, id)
                 /\ ~Includes(archivedThreadIds', id)
                 /\ threadMetadata'[id].status = "regular"
                 /\ threadMetadata'[id].title = threadMetadata[id].title]_vars

\* C12 witness: the default thread, still carrying its synthesized title,
\* is a regular non-main thread at the end of a regular list of several ids:
\* it was archived and unarchived behind the threads created after it.
C12_Witness ==
    /\ mainThreadId # DEFAULT_THREAD_ID
    /\ Len(threadIds) >= 2
    /\ threadIds[Len(threadIds)] = DEFAULT_THREAD_ID
    /\ ~Includes(archivedThreadIds, DEFAULT_THREAD_ID)
    /\ Has(threadMetadata, DEFAULT_THREAD_ID)
    /\ threadMetadata[DEFAULT_THREAD_ID].status = "regular"
    /\ threadMetadata[DEFAULT_THREAD_ID].title = DEFAULT_THREAD_METADATA.title

\* C13: observers are notified exactly once for each committed mutation of
\* the directory, after its persist (one notification per persist, at least
\* one for a call that changed the directory and did not fail), and never by
\* a call that fails with NotFound, InvalidOperation or FatalInconsistency.
C13_NotifyOncePerCommit ==
    [][/\ last'.notifies = last'.persists
       /\ (dirVars' # dirVars /\ ~Failed(last'.outcome)) => last'.notifies >= 1
       /\ last'.outcome \in {"NotFound", "InvalidOperation", "FatalInconsistency"} =>
              last'.notifies = 0]_vars

\* The step runs the statements of switchToNewThread that follow its await.
ResumesNewThread == Resumes /\ Head(pending).op = "switchToNewThread"

\* C14 as stated: switchToNewThread writes the directory once, at the end:
\* the part before the await writes and notifies nothing, and the part after
\* it writes one snapshot, in which the new thread has a record and is main.
C14_PersistsOnceAtEnd ==
    [][/\ SwitchToNewThread =>
              /\ last'.persists = 0
              /\ last'.notifies = 0
              /\ localStorage' = localStorage
       /\ (ResumesNewThread /\ last'.outcome = "ok") =>
              /\ last'.persists = 1
              /\ localStorage'.assistant_mainThreadId.value = Head(pending).arg]_vars

\* C14 as amended: a switchToNewThread that succeeds writes the directory
\* twice and notifies twice: once inside initialize, with the new record
\* created and listed while the main id (in memory and in the snapshot) is
\* still the previous one, and once at the end, with the new id as main id.
C14_PersistsTwice ==
    [][/\ (SwitchToNewThread /\ last'.outcome = "awaiting") =>
              /\ last'.persists = 1
              /\ last'.notifies = 1
              /\ mainThreadId' = mainThreadId
              /\ localStorage'.assistant_mainThreadId.value = mainThreadId
              /\ \E i \in 1..Len(pending') :
                     /\ pending'[i].op = "switchToNewThread"
                     /\ pending'[i].arg # mainThreadId
                     /\ Has(localStorage'.assistant_threadMetadata.value, pending'[i].arg)
                     /\ Includes(localStorage'.assistant_threadIds.value, pending'[i].arg)
       /\ (ResumesNewThread /\ last'.outcome = "ok") =>
              /\ last'.persists = 1
              /\ last'.notifies = 1
              /\ mainThreadId' = Head(pending).arg
              /\ localStorage'.assistant_mainThreadId.value = Head(pending).arg]_vars

\* C14 witness: switchToNewThread has completed: the generated id is the
\* main id in memory and in the snapshot its last step wrote.
C14_Witness ==
    /\ pending = <<>>
    /\ generated > 0
    /\ mainThreadId \in GeneratedIds
    /\ localStorage.assistant_mainThreadId.value = mainThreadId
    /\ last.outcome = "ok"
    /\ last.persists = 1

\* C15: history round trip: after a saveFullHistory(T) whose write was
\* accepted, load() on an adapter for the same id returns T: the same nodes
\* in the same order (createdAt a Date again), the same parent ids and the
\* same head id; and the save changed no other thread's entry.
C15_HistoryRoundTrip ==
    [][\A id \in AllIds, tree \in HistoryInputs :
          (SaveFullHistory(id, tree) /\ storageFaultsLeft' = storageFaultsLeft) =>
              LET loaded == LoadOp(historyStorage', id)
              IN  /\ loaded.err = NoError
                  /\ ~loaded.absent
                  /\ Len(loaded.data.messages) = Len(tree.messages)
                  /\ \A i \in 1..Len(tree.messages) :
                         /\ loaded.data.messages[i].message = tree.messages[i].message
                         /\ loaded.data.messages[i].parentId = tree.messages[i].parentId
                  /\ loaded.data.headId = tree.headId
                  /\ \A other \in AllIds \ {id} :
                         historyStorage'[other] = historyStorage[other]]_vars

\* C15 witness: two threads hold saved trees, different ones, and one of
\* them is the three-node chain with its head on the last node.
C15_Witness ==
    \E id, other \in AllIds :
        /\ id # other
        /\ historyStorage[id].present
        /\ historyStorage[other].present
        /\ Len(historyStorage[id].value.messages) = 3
        /\ historyStorage[id].value.headId = "n3"
        /\ historyStorage[other].value # historyStorage[id].value

\* C16: when the storage medium rejects a history write for lack of room,
\* saveFullHistory reports that failure (the StorageExhausted condition, here
\* the outcome QuotaExceeded) to its caller, and the entry stored before for
\* that thread is left as it was.
C16_StorageExhaustedReported ==
    [][\A id \in AllIds, tree \in HistoryInputs :
          (SaveFullHistory(id, tree) /\ storageFaultsLeft' < storageFaultsLeft) =>
              /\ last'.outcome = "QuotaExceeded"
              /\ historyStorage'[id] = historyStorage[id]]_vars

\* C17: load() returns absent when no entry is stored for its thread id and
\* returns absent, without an error reaching the caller, when the stored
\* entry cannot be deserialized; it leaves the stored entries and the whole
\* directory state unchanged.
C17_LoadAbsentNeverThrows ==
    [][\A id \in AllIds :
          Load(id) =>
              /\ last'.outcome = "ok"
              /\ LoadOp(historyStorage, id).err = NoError
              /\ ~historyStorage[id].present => LoadOp(historyStorage, id).absent
              /\ (historyStorage[id].present /\ historyStorage[id].form # "tree") =>
                     LoadOp(historyStorage, id).absent
              /\ UNCHANGED <<dirVars, localStorage, historyStorage,
                             threadRuntimeInstances, factoryCalls>>]_vars

\* C17 witness: after a call that wrote nothing, the default thread has a
\* runtime and an entry that is not JSON, and another thread has a runtime
\* and no entry.
C17_Witness ==
    /\ last = [outcome |-> "ok", persists |-> 0, notifies |-> 0]
    /\ threadRuntimeInstances[DEFAULT_THREAD_ID] # NoRuntime
    /\ historyStorage[DEFAULT_THREAD_ID].present
    /\ historyStorage[DEFAULT_THREAD_ID].form = "notJSON"
    /\ \E id \in AllIds :
           threadRuntimeInstances[id] # NoRuntime /\ ~historyStorage[id].present

\* C18: delete(id) of a non-main id succeeds; when id has no record it
\* changes nothing (main id, lists, metadata, snapshot, history entries);
\* when id has a record, afterwards id is in neither list and has no record,
\* its history entry is gone, and every other thread keeps its record, its
\* place in the lists and its history entry.
C18_DeleteNonMain ==
    [][\A id \in known :
          (id # mainThreadId /\ Delete(id)) =>
              /\ last'.outcome = "ok"
              /\ ~Has(threadMetadata, id) =>
                     /\ UNCHANGED <<dirVars, localStorage, historyStorage>>
                     /\ last'.persists = 0
                     /\ last'.notifies = 0
              /\ Has(threadMetadata, id) =>
                     /\ ~Includes(threadIds', id)
                     /\ ~Includes(archivedThreadIds', id)
                     /\ ~Has(threadMetadata', id)
                     /\ ~historyStorage'[id].present
                     /\ mainThreadId' = mainThreadId
                     /\ threadIds' = Filter(threadIds, id)
                     /\ archivedThreadIds' = Filter(archivedThreadIds, id)
                     /\ DOMAIN threadMetadata' = DOMAIN threadMetadata \ {id}
                     /\ \A other \in DOMAIN threadMetadata' :
                            threadMetadata'[other] = threadMetadata[other]
                     /\ \A other \in AllIds \ {id} :
                            historyStorage'[other] = historyStorage[other]]_vars

\* C18 witness: a thread that had a runtime was deleted: it has no record
\* and no history entry left, while the main thread keeps its record and its
\* history entry.
C18_Witness ==
    \E id \in AllIds :
        /\ id # mainThreadId
        /\ threadRuntimeInstances[id] # NoRuntime
        /\ ~Has(threadMetadata, id)
        /\ ~Includes(threadIds, id)
        /\ ~historyStorage[id].present
        /\ Has(threadMetadata, mainThreadId)
        /\ historyStorage[mainThreadId].present

\* What the registry's miss handling leaves for id: for the default id the
\* default metadata, the id in the regular list and a runtime; for any other
\* id a FatalInconsistency failure with the id in neither list.
MissHandled(id) ==
    IF id = DEFAULT_THREAD_ID
    THEN /\ last'.outcome = "ok"
         /\ Has(threadMetadata', id)
         /\ threadMetadata'[id] = DEFAULT_THREAD_METADATA
         /\ Includes(threadIds', id)
         /\ threadRuntimeInstances'[id] # NoRuntime
    ELSE /\ last'.outcome = "FatalInconsistency"
         /\ ~Includes(threadIds', id)
         /\ ~Includes(archivedThreadIds', id)
         /\ threadRuntimeInstances'[id] = NoRuntime

\* The registry has no runtime for id and the directory no record.
Miss(id) == threadRuntimeInstances[id] = NoRuntime /\ ~Has(threadMetadata, id)

WellFormed(tree) ==
    /\ \A i \in 1..Len(tree.messages) :
           tree.messages[i].parentId # Null =>
               \E j \in 1..(i - 1) : tree.messages[j].message.id = tree.messages[i].parentId
    /\ tree.headId \notin {Null, Undefined} =>
           \E i \in 1..Len(tree.messages) : tree.messages[i].message.id = tree.headId

\* The node ids, parent ids and head id of a tree.
Shape(tree) ==
    [nodes |-> [i \in 1..Len(tree.messages) |->
                   <<tree.messages[i].message.id, tree.messages[i].parentId>>],
     headId |-> tree.headId]

\* C20 as stated: every message tree held in the history store satisfies
\* the MessageTree invariant.
C20_StoredTreesWellFormed ==
    \A id \in AllIds :
        (historyStorage[id].present /\ historyStorage[id].form = "tree") =>
            WellFormed(historyStorage[id].value)

\* C20 as amended: the store keeps the tree it is handed, node for node (a
\* save whose write is accepted stores the same nodes in the same order with
\* the same parent ids and head id; append, update and load change no stored
\* tree), so a stored tree satisfies the invariant exactly when the tree
\* handed to saveFullHistory did.
C20_StoreKeepsTreeAsGiven ==
    [][/\ \A id \in AllIds, tree \in HistoryInputs :
              (SaveFullHistory(id, tree) /\ storageFaultsLeft' = storageFaultsLeft) =>
                  /\ historyStorage'[id].present
                  /\ historyStorage'[id].form = "tree"
                  /\ Shape(historyStorage'[id].value) = Shape(tree)
                  /\ WellFormed(historyStorage'[id].value) <=> WellFormed(tree)
       /\ \A id \in AllIds :
              (Load(id) \/ AppendHistory(id) \/ UpdateHistory(id)) =>
                  historyStorage' = historyStorage]_vars

\* C20 witness: the store holds a tree whose first node names a later node
\* as its parent, next to a tree that satisfies the invariant.
C20_Witness ==
    \E id, other \in AllIds :
        /\ historyStorage[id].present
        /\ ~WellFormed(historyStorage[id].value)
        /\ historyStorage[other].present
        /\ WellFormed(historyStorage[other].value)
        /\ Len(historyStorage[other].value.messages) = 3

\* C21: after every committed call the persisted snapshot equals the
\* in-memory directory, and a new directory constructed from storage at that
\* point has the same main id, regular list, archived list and records.
C21_SnapshotRestoresDirectory ==
    [][~Failed(last'.outcome) =>
          LET fresh == Constructor(localStorage', historyStorage', Unlimited)
          IN  /\ LoadThreadsFromLocalStorage(localStorage') =
                     [mainThreadId |-> mainThreadId', threadIds |-> threadIds',
                      archivedThreadIds |-> archivedThreadIds',
                      threadMetadata |-> threadMetadata']
              /\ fresh.main = mainThreadId'
              /\ fresh.ids = threadIds'
              /\ fresh.arch = archivedThreadIds'
              /\ fresh.meta = threadMetadata']_vars

\* C22: for every persisted directory state (missing entries, a main id
\* with no record, missing default metadata), construction followed by a
\* read of mainThreadId() raises no error and leaves the main id with a
\* record, out of the archived list, and not in both lists at once.
C22_ConstructionHealsDirectory ==
    [][ReadMainThreadId =>
          /\ last'.outcome = "ok"
          /\ Has(threadMetadata', mainThreadId')
          /\ ~Includes(archivedThreadIds', mainThreadId')
          /\ ~(Includes(threadIds', mainThreadId') /\
               Includes(archivedThreadIds', mainThreadId'))]_vars

\* C23: in every reachable state every stored history blob belongs to an
\* id that has a directory record: once delete(id) has committed, no blob
\* for id exists until id is initialized again, even when a runtime
\* created before the delete goes on calling saveFullHistory.
C23_NoOrphanHistoryBlob ==
    \A id \in AllIds : historyStorage[id].present => Has(threadMetadata, id)

====
